---- MODULE Spec2Model ----
(***************************************************************************)
(* A model of the "life coordinates" scene: the App state (App.tsx), the   *)
(* Scene's morph progress driver and rotation controller (Scene.tsx), the  *)
(* photo ornaments (PhotoOrnaments.tsx) and the gesture classifier         *)
(* (GestureManager, second half of Foliage.tsx).                           *)
(*                                                                         *)
(* Numbers.  The program computes in IEEE doubles; the model computes in   *)
(* fixed point, rounding every product to the nearest unit:                *)
(*   progress            in units of 1/PScale                              *)
(*   interpolation rates in units of 1/TScale                              *)
(*   angular velocity    in units of 1/VelScale rad/s                      *)
(*   the group's angle   in units of 1/AngleScale rad, kept modulo one     *)
(*                       full turn (an Euler angle: y and y + 2*pi are the *)
(*                       same pose)                                        *)
(*   frame time          in milliseconds                                   *)
(*   hand x, landmarks   in units of 1/HandScale of the image width        *)
(*   uProgress           in units of 1/UScale (the shader computes with it  *)
(*                       in units of 1/PScale)                             *)
(*   particle positions  the coordinate along the particle's ray from the  *)
(*                       origin, FieldScale units per world unit           *)
(*   positions           the y coordinate only (the group turns about y,   *)
(*                       so world y = local y), PosScale units per 1000    *)
(***************************************************************************)
EXTENDS Integers, Sequences, FiniteSets

\* ---------------------------------------------------------------- scales
PScale == 10
MaxCameras == 2
TScale == 1000
VelScale == 1000
AngleScale == 1
HandScale == 100
PosScale == 10
UScale == 100
FieldScale == 10
DragRange == 2
MaxImages == 2

Abs(x) == IF x < 0 THEN -x ELSE x
Min(a, b) == IF a < b THEN a ELSE b
\* n / d rounded to the nearest integer (d > 0), the model's rounding of a double
RoundDiv(n, d) == (2 * n + d) \div (2 * d)
\* num/den of a scale, as a fixed-point number of that scale
Fx(num, den, scale) == RoundDiv(num * scale, den)

\* THREE.MathUtils.lerp(x, y, t) = (1 - t) * x + t * y, t in units of 1/TScale
Lerp(x, y, t) == RoundDiv((TScale - t) * x + t * y, TScale)

\* one full turn of the group, 2*pi rad, in angle units
FullTurn == RoundDiv(6283 * AngleScale, 1000)

\* ------------------------------------------------------------- the state
VARIABLES
  \* App (useState / useRef)
  treeState,          \* "TREE_SHAPE" | "SCATTERED"
  isDraggingPhoto,    \* the photo-drag flag
  handXRef,           \* published hand x
  isHandActiveRef,    \* published hand-active flag
  \* Scene (useRef)
  progressRef,        \* morph progress
  angularVelocity,
  rotationY,          \* groupRef.current.rotation.y
  lastMouseX,
  isDraggingScene,
  lastHandX,
  \* the progress props of the last Scene render
  foliageProgress,    \* <Foliage progress={progressRef.current}>
  ornamentProgress,   \* <PhotoOrnaments progress={progressRef.current}>
  \* Foliage
  uProgress,          \* material.uniforms.uProgress.value
  \* App and PhotoOrnaments: the photos
  userImages,         \* the photo source list
  viewingImage,       \* the source handed to the photo-click callback, or NoImage
  photoData,          \* PhotoOrnaments' list; each entry also holds the state of
                      \* the PhotoItem mounted for it (see Ornament)
  \* GestureManager
  mounted,            \* whether the component tree is mounted
  isGestureEnabled,   \* the `active` prop
  handsRef,           \* whether the Hands pipeline exists
  cameraRef,          \* the current Camera handle, or NoCamera
  camerasMade,        \* how many Camera handles were created
  camerasRunning,     \* the handles started and not stopped
  pending             \* the hands.send() result in flight, or NoResult

appVars == <<treeState, isDraggingPhoto, handXRef, isHandActiveRef>>
sceneVars == <<progressRef, angularVelocity, rotationY, lastMouseX, isDraggingScene, lastHandX>>
renderVars == <<foliageProgress, ornamentProgress>>
photoVars == <<userImages, viewingImage, photoData>>
gestureVars == <<mounted, isGestureEnabled, handsRef, cameraRef, camerasMade, camerasRunning, pending>>
vars == <<appVars, sceneVars, renderVars, uProgress, photoVars, gestureVars>>

NoImage == "none"
NoCamera == 0
NoResult == [hand |-> "none"]

\* ------------------------------------------------------------ App, Scene
TreeStates == {"TREE_SHAPE", "SCATTERED"}

\* Scene.tsx:34
targetProgress == IF treeState = "TREE_SHAPE" THEN PScale ELSE 0

\* A render of Scene evaluates progress={progressRef.current} for Foliage and
\* for PhotoOrnaments: both props are the ref's value at that render.
SceneRender ==
  /\ foliageProgress' = progressRef
  /\ ornamentProgress' = progressRef

\* setTreeState(s): React re-renders App (and Scene) only when the state changes
SetTreeState(s) ==
  /\ treeState' = s
  /\ IF s # treeState THEN SceneRender ELSE UNCHANGED renderVars

\* App.toggleState: the AXIS / SCATTER button
ToggleState ==
  /\ SetTreeState(IF treeState = "TREE_SHAPE" THEN "SCATTERED" ELSE "TREE_SHAPE")
  /\ UNCHANGED <<isDraggingPhoto, handXRef, isHandActiveRef, sceneVars, uProgress,
                 photoVars, gestureVars>>

\* setIsDraggingPhoto(b), the ornaments' onDragStateChange
SetIsDraggingPhoto(b) ==
  /\ isDraggingPhoto' = b
  /\ IF b # isDraggingPhoto THEN SceneRender ELSE UNCHANGED renderVars

\* Math.min(delta * 3.5, 1.0), delta in ms
MorphStepNoClamp(delta) == RoundDiv(delta * 35 * TScale, 10 * 1000)
MorphStep(delta) == Min(RoundDiv(delta * 35 * TScale, 10 * 1000), TScale)

\* the first statement of Scene's useFrame callback (and, for comparison, an
\* ease placed after the photo-drag return)
EaseProgressAfterReturn(delta) ==
  IF isDraggingPhoto THEN progressRef
  ELSE Lerp(progressRef, targetProgress, MorphStep(delta))
EaseProgress(delta) == Lerp(progressRef, targetProgress, MorphStep(delta))

\* angularVelocity.current *= friction  (0.96)
Friction(v) == RoundDiv(v * 96, 100)
idleSpeed == Fx(6, 100, VelScale)
\* lerp(angularVelocity, idleSpeed, 0.05) when |angularVelocity| < idleSpeed
IdleDrift(v) == IF Abs(v) < idleSpeed THEN Lerp(v, idleSpeed, Fx(5, 100, TScale)) ELSE v
\* handDelta * 18.0, hand x in 1/HandScale
HandImpulse(dx) == RoundDiv(dx * 18 * VelScale, HandScale)
\* angularVelocity * delta, as an angle
AngleStep(v, delta) == RoundDiv(v * delta * AngleScale, VelScale * 1000)
Turn(a) == a % FullTurn

\* The rotation half of Scene's useFrame callback when no photo is dragged
RotationFrame(delta) ==
  LET gesture == ~isDraggingScene /\ isHandActiveRef
      v1 == IF gesture THEN angularVelocity + HandImpulse(handXRef - lastHandX)
                       ELSE angularVelocity
      v2 == Friction(v1)
      v3 == IF ~isDraggingScene /\ ~isHandActiveRef THEN IdleDrift(v2) ELSE v2
  IN /\ lastHandX' = IF gesture THEN handXRef ELSE lastHandX
     /\ angularVelocity' = v3
     /\ rotationY' = Turn(rotationY + AngleStep(v3, delta))

\* the early return of the callback while a photo is dragged (and, for
\* comparison, a return that lets the velocity coast)
PhotoDragFrameCoasting ==
  /\ angularVelocity' = Friction(angularVelocity)
  /\ UNCHANGED <<rotationY, lastHandX>>
PhotoDragFrame ==
  /\ angularVelocity' = 0
  /\ UNCHANGED <<rotationY, lastHandX>>

\* Scene's useFrame callback
SceneFrame(delta) ==
  /\ progressRef' = EaseProgress(delta)
  /\ IF isDraggingPhoto THEN PhotoDragFrame ELSE RotationFrame(delta)
  /\ UNCHANGED <<lastMouseX, isDraggingScene, appVars, renderVars, uProgress,
                 photoVars, gestureVars>>

\* Scene.handlePointerDown on the invisible plane
ScenePointerDown(clientX) ==
  /\ IF isDraggingPhoto
       THEN UNCHANGED <<isDraggingScene, lastMouseX, angularVelocity>>
       ELSE /\ isDraggingScene' = TRUE
            /\ lastMouseX' = clientX
            /\ angularVelocity' = 0
  /\ UNCHANGED <<progressRef, rotationY, lastHandX, appVars, renderVars, uProgress,
                 photoVars, gestureVars>>

\* Scene.handlePointerUp (onPointerUp and onPointerLeave)
ScenePointerUp ==
  /\ isDraggingScene' = FALSE
  /\ UNCHANGED <<progressRef, angularVelocity, rotationY, lastMouseX, lastHandX,
                 appVars, renderVars, uProgress, photoVars, gestureVars>>

\* deltaX * 0.005 rad, as an angle; deltaX * 0.05 rad/s, as a velocity
DragAngle(deltaX) == RoundDiv(deltaX * 5 * AngleScale, 1000)
DragVelocity(deltaX) == RoundDiv(deltaX * 5 * VelScale, 100)

\* Scene.handlePointerMove
ScenePointerMove(clientX) ==
  /\ IF isDraggingScene /\ ~isDraggingPhoto
       THEN /\ lastMouseX' = clientX
            /\ rotationY' = Turn(rotationY + DragAngle(clientX - lastMouseX))
            /\ angularVelocity' = DragVelocity(clientX - lastMouseX)
       ELSE UNCHANGED <<lastMouseX, rotationY, angularVelocity>>
  /\ UNCHANGED <<progressRef, isDraggingScene, lastHandX, appVars, renderVars,
                 uProgress, photoVars, gestureVars>>

\* onDragStateChange as Scene sees it: PhotoOrnaments' onDragStart / onDragEnd
DragStateChange(b) ==
  /\ SetIsDraggingPhoto(b)
  /\ UNCHANGED <<treeState, handXRef, isHandActiveRef, sceneVars, uProgress,
                 photoVars, gestureVars>>

\* ---------------------------------------------------------------- Foliage
\* Foliage's useFrame callback: uProgress eases to the progress prop at rate 0.1
FoliageFrame ==
  /\ uProgress' = Lerp(uProgress, RoundDiv(foliageProgress * UScale, PScale), Fx(1, 10, TScale))
  /\ UNCHANGED <<appVars, sceneVars, renderVars, photoVars, gestureVars>>

\* ----------------------------------------------------------------- photos
\* a length of w world units, in position units
World(w) == Fx(w, 1000, PosScale)

\* One entry of photoData: the url and its DualPosition data (tree, scatter,
\* phaseOffset), and the state of the PhotoItem rendered for it: isDragging,
\* hovered, pos (meshRef.current.position) and dragOffset.  (targetPos, written
\* and read within one frame callback, is a value of PhotoItemFrame.)
Ornament(url, g) ==
  [url |-> url, tree |-> g.tree, scatter |-> g.scatter, phaseOffset |-> g.phaseOffset,
   isDragging |-> FALSE, hovered |-> FALSE, pos |-> 0, dragOffset |-> 0]

\* a PhotoItem is keyed `${url}-${index}`: the item at index k keeps its component
\* state only when the entry that was at index k had the same url; else it is a new mount
Mounted(prev, k, entry) ==
  IF k <= Len(prev) /\ prev[k].url = entry.url
    THEN [entry EXCEPT !.isDragging = prev[k].isDragging, !.hovered = prev[k].hovered,
                       !.pos = prev[k].pos, !.dragOffset = prev[k].dragOffset]
    ELSE [entry EXCEPT !.isDragging = FALSE, !.hovered = FALSE, !.pos = 0,
                       !.dragOffset = 0]

SeqRange(q) == {q[i] : i \in DOMAIN q}

\* PhotoOrnaments' effect on [images]: setPhotoData(prev => [...filteredPrev, ...newItems]);
\* g[k] is the random data drawn for the k-th new image
PhotoEffect(prev, images, g) ==
  LET existingUrls == {prev[i].url : i \in DOMAIN prev}
      IsNew(url) == url \notin existingUrls
      newImages == SelectSeq(images, IsNew)
      newItems == [k \in 1..Len(newImages) |-> Ornament(newImages[k], g[k])]
      Kept(p) == p.url \in SeqRange(images)
      filteredPrev == SelectSeq(prev, Kept)
      list == filteredPrev \o newItems
  IN [k \in 1..Len(list) |-> Mounted(prev, k, list[k])]

\* setViewingImage(v)
SetViewingImage(v) ==
  /\ viewingImage' = v
  /\ IF v # viewingImage THEN SceneRender ELSE UNCHANGED renderVars

\* App.handleFileUpload once every file of the selection is read: batch is the
\* data URLs in the order the reads finished
Upload(batch, g) ==
  /\ Len(batch) > 0
  /\ Len(userImages) + Len(batch) <= MaxImages
  /\ userImages' = userImages \o batch
  /\ SceneRender
  /\ photoData' = PhotoEffect(photoData, userImages', g)
  /\ UNCHANGED <<appVars, sceneVars, uProgress, viewingImage, gestureVars>>

\* App.handleDeletePhoto with the confirm accepted
DeletePhoto ==
  /\ viewingImage # NoImage
  /\ LET Other(img) == img # viewingImage
     IN userImages' = SelectSeq(userImages, Other)
  /\ viewingImage' = NoImage
  /\ SceneRender
  /\ photoData' = PhotoEffect(photoData, userImages', <<>>)
  /\ UNCHANGED <<appVars, sceneVars, uProgress, gestureVars>>

\* App.clearAllPhotos with the confirm accepted (the button shows when there are photos)
ClearAllPhotos ==
  /\ Len(userImages) > 0
  /\ userImages' = <<>>
  /\ SceneRender
  /\ photoData' = PhotoEffect(photoData, userImages', <<>>)
  /\ UNCHANGED <<appVars, sceneVars, uProgress, viewingImage, gestureVars>>

\* App.closeViewer
CloseViewer ==
  /\ viewingImage # NoImage
  /\ SetViewingImage(NoImage)
  /\ UNCHANGED <<appVars, sceneVars, uProgress, userImages, photoData, gestureVars>>

\* the ray's intersection with the drag plane: <<y>>, or NoHit when intersectPlane
\* returns null
NoHit == <<>>

\* PhotoItem.handlePointerDown
OrnamentPointerDown(k, hit) ==
  /\ k \in DOMAIN photoData
  /\ photoData' = [photoData EXCEPT
       ![k].dragOffset = IF hit # NoHit THEN photoData[k].pos - hit[1] ELSE @,
       ![k].isDragging = TRUE]
  /\ SetIsDraggingPhoto(TRUE)
  /\ UNCHANGED <<treeState, handXRef, isHandActiveRef, sceneVars, uProgress,
                 userImages, viewingImage, gestureVars>>

\* the tree position a pointer-move computes: worldToLocal(intersection + dragOffset)
DragTargetNoOffset(o, hit) == hit[1]
DragTarget(o, hit) == hit[1] + o.dragOffset

\* whether handlePointerMove reaches the assignment of data.tree (and, for
\* comparison, a handler without the isDragging return)
MoveWritesTreeUnguarded(o, hit) == hit # NoHit
MoveWritesTree(o, hit) == o.isDragging /\ hit # NoHit

\* PhotoItem.handlePointerMove; the pointer stays within DragRange thousand world
\* units of the centre
OrnamentPointerMove(k, hit) ==
  /\ k \in DOMAIN photoData
  /\ hit # NoHit => Abs(DragTarget(photoData[k], hit)) <= World(1000 * DragRange)
  /\ photoData' = [photoData EXCEPT
       ![k].tree = IF MoveWritesTree(photoData[k], hit)
                     THEN DragTarget(photoData[k], hit) ELSE @]
  /\ UNCHANGED <<appVars, sceneVars, renderVars, uProgress, userImages, viewingImage,
                 gestureVars>>

\* PhotoItem.handlePointerUp
OrnamentPointerUp(k) ==
  /\ k \in DOMAIN photoData
  /\ IF photoData[k].isDragging
       THEN /\ photoData' = [photoData EXCEPT ![k].isDragging = FALSE]
            /\ SetIsDraggingPhoto(FALSE)
       ELSE UNCHANGED <<photoData, isDraggingPhoto, renderVars>>
  /\ UNCHANGED <<treeState, handXRef, isHandActiveRef, sceneVars, uProgress,
                 userImages, viewingImage, gestureVars>>

\* PhotoItem.handleDoubleClick, and App.handlePhotoClick behind onClick
OrnamentDoubleClick(k) ==
  /\ k \in DOMAIN photoData
  /\ SetViewingImage(photoData[k].url)
  /\ UNCHANGED <<appVars, sceneVars, uProgress, userImages, photoData, gestureVars>>

\* onPointerOver / onPointerOut
OrnamentHover(k, b) ==
  /\ k \in DOMAIN photoData
  /\ photoData' = [photoData EXCEPT ![k].hovered = b]
  /\ UNCHANGED <<appVars, sceneVars, renderVars, uProgress, userImages, viewingImage,
                 gestureVars>>

\* THREE.MathUtils.smoothstep(x, 0, 1) = x * x * (3 - 2 * x), clamped
Smoothstep(x) ==
  IF x <= 0 THEN 0 ELSE IF x >= PScale THEN PScale
  ELSE RoundDiv(x * x * (3 * PScale - 2 * x), PScale * PScale)

\* the position PhotoItem's useFrame callback aims at; c and s stand for
\* cos(t * 0.3 + phaseOffset) and sin(t * 0.8 + phaseOffset), each in -1..1
OrnamentTarget(o, c, s) ==
  LET easeProgress == Smoothstep(ornamentProgress)
      inverseEase == PScale - easeProgress
      chaosY == RoundDiv(c * World(150) * inverseEase, PScale)
      baseTargetY ==
        RoundDiv((PScale - easeProgress) * o.scatter + easeProgress * o.tree, PScale) + chaosY
      floatFactor == IF o.isDragging THEN 0 ELSE 1
      floatY == RoundDiv(s * (World(15) * PScale + World(60) * inverseEase) * floatFactor, PScale)
  IN baseTargetY + floatY

\* lerpRate: 0.3 while dragging, 0.08 otherwise
LerpRateSwapped(o) == IF o.isDragging THEN Fx(8, 100, TScale) ELSE Fx(3, 10, TScale)
LerpRate(o) == IF o.isDragging THEN Fx(3, 10, TScale) ELSE Fx(8, 100, TScale)

\* Vector3.lerp(v, alpha): this += (v - this) * alpha
EaseTo(pos, target, alpha) == pos + RoundDiv((target - pos) * alpha, TScale)

\* PhotoItem's useFrame callback (position; scale and opacity are not modelled)
PhotoItemFrame(k, c, s) ==
  /\ k \in DOMAIN photoData
  /\ LET o == photoData[k]
         target == OrnamentTarget(o, c, s)
     IN photoData' = [photoData EXCEPT ![k].pos = EaseTo(o.pos, target, LerpRate(o))]
  /\ UNCHANGED <<appVars, sceneVars, renderVars, uProgress, userImages, viewingImage,
                 gestureVars>>

\* ------------------------------------------------- foliageVertexShader
\* the uniform as the shader computes with it
ShaderProgress == RoundDiv(uProgress * PScale, UScale)

\* smoothstep(0.8, 0.0, t): GLSL leaves smoothstep undefined when edge0 >= edge1,
\* so the factor is what the reference formula gives or any extreme
ReversedSmoothstep(t) == {Smoothstep(RoundDiv(8 * PScale - 10 * t, 8)), 0, PScale}

\* explosion, given the first factor e: e * smoothstep(0.0, 0.5, t) * 1200.0
Explosion(t, e) == RoundDiv(e * Smoothstep(2 * t) * 1200 * FieldScale, PScale * PScale)

\* breathe * 0.2 = sin(...) * 15.0 * (1.1 - t) * 0.2
Breathe(t, sb) == RoundDiv(sb * 15 * FieldScale * (11 * PScale - 10 * t) * 2, 100 * PScale)

\* main(): currentPos of particle p along its ray, for uniform value u; sc and sb
\* stand for the chaos and the breathing sinusoid, e for the explosion's first factor
ParticlePosition(u, p, sc, sb, e) ==
  LET t == Smoothstep(u)
      inverseT == PScale - t
      mixed == RoundDiv(inverseT * p.scatter + t * p.tree, PScale)
      chaos == RoundDiv(sc * inverseT * 250 * FieldScale, PScale)
      currentPos == mixed + Explosion(t, e) + chaos
      outward == IF currentPos < 0 THEN -1 ELSE 1
  IN currentPos + outward * Breathe(t, sb)

\* --------------------------------------------------------- GestureManager
\* A landmark frame: "none" (no hand), or the landmarks onResults reads of the
\* first hand: wrist (0), thumb tip (4), palm centre (9), finger tips (8, 12, 16, 20);
\* a point is <<x, y>> in units of 1/HandScale.
Dist2(p, q) == (p[1] - q[1]) * (p[1] - q[1]) + (p[2] - q[2]) * (p[2] - q[2])

\* getDistance(tip, wrist) > referenceDist * 1.7, on the squares (1.7^2 = 2.89)
FingerExtended(lm, tip) == 100 * Dist2(tip, lm.wrist) > 289 * Dist2(lm.wrist, lm.palm)
\* getDistance(thumbTip, wrist) > referenceDist * 1.3 (1.3^2 = 1.69)
ThumbExtended(lm) == 100 * Dist2(lm.thumb, lm.wrist) > 169 * Dist2(lm.wrist, lm.palm)

extendedFingers(lm) ==
  Cardinality({i \in 1..4 : FingerExtended(lm, lm.tips[i])})
    + (IF ThumbExtended(lm) THEN 1 ELSE 0)

\* what onResults hands to onStateChange for a count: a state, or "none"
EmissionWrongBand(count) ==
  IF count >= 2 THEN "SCATTERED" ELSE IF count <= 1 THEN "TREE_SHAPE" ELSE "none"
Emission(count) ==
  IF count >= 3 THEN "SCATTERED" ELSE IF count <= 1 THEN "TREE_SHAPE" ELSE "none"

\* what the effect leaves in cameraRef.current after cameraRef.current.stop():
\* null (and, for comparison, the stopped handle)
HandleKeptAfterStop == cameraRef
HandleAfterStop == NoCamera

\* the setIsGestureEnabled button, and GestureManager's effect on `active`
ToggleGesture ==
  /\ mounted
  /\ isGestureEnabled' = ~isGestureEnabled
  /\ SceneRender
  /\ IF ~isGestureEnabled
       THEN \* the effect body with active = TRUE
            /\ camerasMade < MaxCameras \/ cameraRef # NoCamera
            /\ handsRef' = TRUE
            /\ IF cameraRef = NoCamera
                 THEN /\ camerasMade' = camerasMade + 1
                      /\ cameraRef' = camerasMade + 1
                      /\ camerasRunning' = camerasRunning \cup {camerasMade + 1}
                 ELSE UNCHANGED <<camerasMade, cameraRef, camerasRunning>>
            /\ UNCHANGED isHandActiveRef
       ELSE \* the cleanup of the active effect, then the body with active = FALSE
            /\ camerasRunning' = camerasRunning \ {cameraRef}
            /\ cameraRef' = HandleAfterStop
            /\ isHandActiveRef' = FALSE
            /\ UNCHANGED <<handsRef, camerasMade>>
  /\ UNCHANGED <<treeState, isDraggingPhoto, handXRef, sceneVars, uProgress,
                 photoVars, pending, mounted>>

\* the component tree is unmounted: the cleanup of the active effect runs (the
\* inactive branch returned no cleanup); the Hands pipeline is not closed
Unmount ==
  /\ mounted
  /\ mounted' = FALSE
  /\ IF isGestureEnabled
       THEN /\ camerasRunning' = camerasRunning \ {cameraRef}
            /\ cameraRef' = HandleAfterStop
            /\ isHandActiveRef' = FALSE
       ELSE UNCHANGED <<camerasRunning, cameraRef, isHandActiveRef>>
  /\ UNCHANGED <<treeState, isDraggingPhoto, handXRef, sceneVars, renderVars, uProgress,
                 photoVars, isGestureEnabled, handsRef, camerasMade, pending>>

\* the camera's onFrame: hands.send({image}) of the current video frame; the
\* inference result lm arrives later
CameraFrame(lm) ==
  /\ camerasRunning # {}
  /\ handsRef
  /\ pending = NoResult
  /\ pending' = lm
  /\ UNCHANGED <<appVars, sceneVars, renderVars, uProgress, photoVars,
                 mounted, isGestureEnabled, handsRef, cameraRef, camerasMade, camerasRunning>>

\* onResults with a hand: the flag and the wrist's x are published before the
\* classification (and, for comparison, only when the count is classified)
PublishHandWhenClassified(lm) ==
  IF Emission(extendedFingers(lm)) = "none"
    THEN UNCHANGED <<isHandActiveRef, handXRef>>
    ELSE isHandActiveRef' = TRUE /\ handXRef' = lm.wrist[1]
PublishHand(lm) ==
  /\ isHandActiveRef' = TRUE
  /\ handXRef' = lm.wrist[1]

\* onResults without a hand: the else branch (and, for comparison, one that
\* also recentres the published x)
NoHandResultRecentring ==
  /\ isHandActiveRef' = FALSE
  /\ handXRef' = Fx(5, 10, HandScale)
  /\ UNCHANGED <<treeState, renderVars>>
NoHandResult ==
  /\ isHandActiveRef' = FALSE
  /\ UNCHANGED <<handXRef, treeState, renderVars>>

\* onResults(results); setTreeState on an unmounted App does nothing
OnResults ==
  /\ pending # NoResult
  /\ pending' = NoResult
  /\ IF pending.hand = "present"
       THEN /\ PublishHand(pending)
            /\ LET e == Emission(extendedFingers(pending))
               IN IF e = "none" \/ ~mounted THEN UNCHANGED <<treeState, renderVars>>
                                             ELSE SetTreeState(e)
       ELSE NoHandResult
  /\ UNCHANGED <<isDraggingPhoto, sceneVars, uProgress, photoVars,
                 mounted, isGestureEnabled, handsRef, cameraRef, camerasMade, camerasRunning>>

\* a hand's landmarks placed relative to the wrist
Hand(wristX, palmOff, thumbOff, tipOffs) ==
  LET w == <<wristX, 80>>
      at(off) == <<w[1] + off[1], w[2] + off[2]>>
  IN [hand |-> "present", wrist |-> w, palm |-> at(palmOff), thumb |-> at(thumbOff),
      tips |-> [i \in 1..4 |-> at(tipOffs[i])]]
NoHand == [hand |-> "absent"]

WristXs == {40, 50, 60}
PalmOffsets == {<<0, -10>>, <<6, -8>>}
ThumbOffsets == {<<0, -12>>, <<0, -14>>}
TipOffsets == {<<0, -16>>, <<9, -15>>}
HandFrames ==
  {Hand(x, p, t, f) : x \in WristXs, p \in PalmOffsets, t \in ThumbOffsets,
                      f \in [1..4 -> TipOffsets]}

\* ------------------------------------------------------------------ Init
Init ==
  /\ treeState = "TREE_SHAPE"
  /\ isDraggingPhoto = FALSE
  /\ handXRef = Fx(5, 10, HandScale)
  /\ isHandActiveRef = FALSE
  /\ progressRef = 0
  /\ angularVelocity = Fx(15, 100, VelScale)
  /\ rotationY = 0
  /\ lastMouseX = 0
  /\ isDraggingScene = FALSE
  /\ lastHandX = Fx(5, 10, HandScale)
  /\ foliageProgress = 0
  /\ ornamentProgress = 0
  /\ uProgress = 0
  /\ userImages = <<>>
  /\ viewingImage = NoImage
  /\ photoData = <<>>
  /\ mounted = TRUE
  /\ isGestureEnabled = FALSE
  /\ handsRef = FALSE
  /\ cameraRef = NoCamera
  /\ camerasMade = 0
  /\ camerasRunning = {}
  /\ pending = NoResult

\* frame times, in ms: a zero frame, a short one, a long one (delta * 3.5 > 1)
Deltas == {0, 150, 1000}

NextMorph ==
  \/ ToggleState
  \/ \E d \in Deltas : SceneFrame(d)
  \/ FoliageFrame

SpecMorph == Init /\ [][NextMorph]_vars

NextGesture ==
  \/ ToggleState
  \/ ToggleGesture
  \/ \E lm \in HandFrames \cup {NoHand} : CameraFrame(lm)
  \/ OnResults

SpecGesture == Init /\ [][NextGesture]_vars

\* the gesture button, the camera and the tracker up to and after the unmount
NextCamera ==
  \/ ToggleGesture
  \/ \E lm \in HandFrames \cup {NoHand} : CameraFrame(lm)
  \/ OnResults
  \/ Unmount

SpecCamera == Init /\ [][NextCamera]_vars

\* frames with positive frame time keep coming (the render loop)
PosDeltas == Deltas \ {0}
NextLive ==
  \/ ToggleState
  \/ \E b \in BOOLEAN : DragStateChange(b)
  \/ \E d \in Deltas : SceneFrame(d)

SpecLive == Init /\ [][NextLive]_vars /\ WF_vars(\E d \in PosDeltas : SceneFrame(d))

\* The rotation specification starts from the state one click on the gesture
\* button after construction: tracker and camera 1 are running.
InitTracking ==
  /\ treeState = "TREE_SHAPE"
  /\ isDraggingPhoto = FALSE
  /\ handXRef = Fx(5, 10, HandScale)
  /\ isHandActiveRef = FALSE
  /\ progressRef = 0
  /\ angularVelocity = Fx(15, 100, VelScale)
  /\ rotationY = 0
  /\ lastMouseX = 0
  /\ isDraggingScene = FALSE
  /\ lastHandX = Fx(5, 10, HandScale)
  /\ foliageProgress = 0
  /\ ornamentProgress = 0
  /\ uProgress = 0
  /\ userImages = <<>>
  /\ viewingImage = NoImage
  /\ photoData = <<>>
  /\ mounted = TRUE
  /\ isGestureEnabled = TRUE
  /\ handsRef = TRUE
  /\ cameraRef = 1
  /\ camerasMade = 1
  /\ camerasRunning = {1}
  /\ pending = NoResult

ClientXs == {0, 100}
\* a fist held right of centre
RotHandFrames == {Hand(x, <<0, -10>>, <<0, -12>>, [i \in 1..4 |-> <<0, -16>>]) : x \in {60}}
RotDeltas == {0, 1000}
NextRotation ==
  \/ \E x \in ClientXs : ScenePointerDown(x)
  \/ \E x \in ClientXs : ScenePointerMove(x)
  \/ ScenePointerUp
  \/ \E b \in BOOLEAN : DragStateChange(b)
  \/ \E lm \in RotHandFrames \cup {NoHand} : CameraFrame(lm)
  \/ OnResults
  \/ \E d \in RotDeltas : SceneFrame(d)

SpecRotation == InitTracking /\ [][NextRotation]_vars

\* The drag specification starts from the state one 150 ms frame and one click
\* on the AXIS / SCATTER button after construction: the morph is under way and
\* the click's render has handed its progress to the ornaments.
InitHalfway ==
  /\ treeState = "SCATTERED"
  /\ isDraggingPhoto = FALSE
  /\ handXRef = Fx(5, 10, HandScale)
  /\ isHandActiveRef = FALSE
  /\ progressRef = Lerp(0, PScale, MorphStep(150))
  /\ angularVelocity = IdleDrift(Friction(Fx(15, 100, VelScale)))
  /\ rotationY = 0
  /\ lastMouseX = 0
  /\ isDraggingScene = FALSE
  /\ lastHandX = Fx(5, 10, HandScale)
  /\ foliageProgress = progressRef
  /\ ornamentProgress = progressRef
  /\ uProgress = 0
  /\ userImages = <<>>
  /\ viewingImage = NoImage
  /\ photoData = <<>>
  /\ mounted = TRUE
  /\ isGestureEnabled = FALSE
  /\ handsRef = FALSE
  /\ cameraRef = NoCamera
  /\ camerasMade = 0
  /\ camerasRunning = {}
  /\ pending = NoResult

Urls == {"a", "b"}
Batches == UNION {[1..n -> Urls] : n \in 1..MaxImages}
\* getOffAxisPosition(2200, 350), getSpherePosition(4500), Math.random() * 2 * pi
NewTreeYs == {World(1000)}
NewScatterYs == {World(-3000)}
PhaseOffsets == {0}
NewData == [1..MaxImages -> [tree : NewTreeYs, scatter : NewScatterYs, phaseOffset : PhaseOffsets]]
Hits == {<<World(0)>>, <<World(500)>>}
Sinusoids == {-1, 0, 1}
\* getCrossPosition(4000, 15, 2.0, axis), getSpherePosition(4500)
Particles == {[tree |-> 1000 * FieldScale, scatter |-> 4500 * FieldScale],
              [tree |-> 4000 * FieldScale, scatter |-> 4500 * FieldScale]}
Slots == 1..MaxImages

\* the photo list, double-clicks, and drags begun and ended on the ornaments
NextPhotos ==
  \/ \E b \in Batches, g \in NewData : Upload(b, g)
  \/ DeletePhoto
  \/ ClearAllPhotos
  \/ CloseViewer
  \/ \E k \in Slots, h \in Hits \cup {NoHit} : OrnamentPointerDown(k, h)
  \/ \E k \in Slots : OrnamentPointerUp(k)
  \/ \E k \in Slots : OrnamentDoubleClick(k)

SpecPhotos == Init /\ [][NextPhotos]_vars

\* one photo: its ornament dragged, animated, viewed, deleted and uploaded again
OneBatch == {<<"a">>}
NextDrag ==
  \/ \E b \in OneBatch, g \in NewData : Upload(b, g)
  \/ DeletePhoto
  \/ CloseViewer
  \/ \E k \in Slots, h \in Hits \cup {NoHit} : OrnamentPointerDown(k, h)
  \/ \E k \in Slots, h \in Hits \cup {NoHit} : OrnamentPointerMove(k, h)
  \/ \E k \in Slots : OrnamentPointerUp(k)
  \/ \E k \in Slots : OrnamentDoubleClick(k)
  \/ \E k \in Slots, c \in Sinusoids, s \in Sinusoids : PhotoItemFrame(k, c, s)

SpecDrag == InitHalfway /\ [][NextDrag]_vars

\* Several ornaments at once: uploads of one or two photos, deletion, pointer
\* events and hover on either ornament, and each ornament's first frame after
\* it is mounted (its mesh still at the origin), which bounds the animation.
PairHits == {<<World(500)>>}
FirstFrame(k, c, s) == k \in DOMAIN photoData /\ photoData[k].pos = 0 /\ PhotoItemFrame(k, c, s)
NextPair ==
  \/ \E b \in Batches, g \in NewData : Upload(b, g)
  \/ DeletePhoto
  \/ CloseViewer
  \/ \E k \in Slots, h \in PairHits \cup {NoHit} : OrnamentPointerDown(k, h)
  \/ \E k \in Slots, h \in PairHits \cup {NoHit} : OrnamentPointerMove(k, h)
  \/ \E k \in Slots : OrnamentPointerUp(k)
  \/ \E k \in Slots : OrnamentDoubleClick(k)
  \/ \E k \in Slots, b \in BOOLEAN : OrnamentHover(k, b)
  \/ \E k \in Slots : FirstFrame(k, 0, 0)

SpecPair == Init /\ [][NextPair]_vars

\* ================================================================ properties
\* ---------------------------------------------------------------------- C1
\* C1: whenever onResults handles a frame with a hand in it, the morph state
\* afterwards is decided by the extended-finger count alone: 0 or 1 gives the
\* tree state, 3, 4 or 5 the scattered state, and 2 leaves the state as it was.
C1_CountDecidesState ==
  [][(OnResults /\ pending.hand = "present") =>
       LET count == extendedFingers(pending)
       IN /\ count \in 0..5
          /\ count \in {0, 1} => treeState' = "TREE_SHAPE"
          /\ count \in {3, 4, 5} => treeState' = "SCATTERED"
          /\ count = 2 => treeState' = treeState]_vars

\* a two-finger frame is waiting while the state is scattered and an earlier
\* hand frame (wrist right of centre) has been handled
C1_Witness ==
  /\ pending.hand = "present"
  /\ extendedFingers(pending) = 2
  /\ treeState = "SCATTERED"
  /\ isHandActiveRef
  /\ handXRef = 60

\* ---------------------------------------------------------------------- C2
\* C2: morph progress is always within [0, 1], and no step moves it anywhere but
\* between its old value and the target (never past the target), whatever the
\* frame time and however the target is switched.
C2_ProgressBounded ==
  /\ [](progressRef \in 0..PScale)
  /\ [][IF progressRef <= targetProgress
          THEN progressRef <= progressRef' /\ progressRef' <= targetProgress
          ELSE targetProgress <= progressRef' /\ progressRef' <= progressRef]_vars

\* on the way back to 0 after the morph had reached 1 exactly
C2_Witness ==
  /\ treeState = "SCATTERED"
  /\ foliageProgress = PScale
  /\ progressRef \in 1..(PScale - 1)

\* ---------------------------------------------------------------------- C3
MorphEps == 1

\* C3: when the morph state stops changing and frames with positive frame time
\* keep coming, progress ends up within MorphEps of the target for good, photo
\* drag or not.
C3_ProgressConverges ==
  /\ <>[](treeState = "TREE_SHAPE") => <>[](progressRef >= PScale - MorphEps)
  /\ <>[](treeState = "SCATTERED") => <>[](progressRef <= MorphEps)

\* progress has arrived at 1 in frames run during a photo drag that began
\* while it was still on its way
C3_Witness ==
  /\ isDraggingPhoto
  /\ angularVelocity = 0
  /\ treeState = "TREE_SHAPE"
  /\ progressRef = PScale
  /\ foliageProgress \in 1..(PScale - 1)

\* ---------------------------------------------------------------------- C4
\* C4: every frame in which the particle field animator changes its blend, the
\* progress it and the ornament animators read is the morph driver's current
\* eased progress.
C4_AnimatorsReadDriver ==
  [][FoliageFrame => (foliageProgress = progressRef /\ ornamentProgress = progressRef)]_vars

\* ---------------------------------------------------------------------- C5
\* C5: the ornament collection never holds two ornaments for one photo source.
C5_OneOrnamentPerSource ==
  \A i, j \in DOMAIN photoData : photoData[i].url = photoData[j].url => i = j

\* ---------------------------------------------------------------------- C6
\* C6: a double-click on an ornament whose drag is active leaves the viewed photo
\* as it was (the photo-click callback is not invoked); a double-click on an
\* ornament that is not dragged makes that ornament's photo the viewed one.
C6_DoubleClickRespectsDrag ==
  [][\A k \in Slots :
       OrnamentDoubleClick(k) =>
         IF photoData[k].isDragging
           THEN viewingImage' = viewingImage
           ELSE viewingImage' = photoData[k].url]_vars

\* ---------------------------------------------------------------------- C7
\* C7: a pointer-move of a drag stores, as the ornament's tree position, the
\* drag-plane intersection plus the grab offset taken at pointer-down, and no
\* other step (release, frame, double-click, list update that keeps the ornament)
\* changes the stored tree position.
C7_DropPositionKept ==
  [][\A k \in DOMAIN photoData :
       /\ \A h \in Hits :
            (OrnamentPointerMove(k, h) /\ photoData[k].isDragging)
              => photoData'[k].tree = h[1] + photoData[k].dragOffset
       /\ (/\ ~ \E h \in Hits : OrnamentPointerMove(k, h)
           /\ k \in DOMAIN photoData'
           /\ photoData'[k].url = photoData[k].url)
            => photoData'[k].tree = photoData[k].tree]_vars

\* an ornament grabbed off its centre, dropped away from where it was created,
\* released, and animated since
C7_Witness ==
  \E k \in DOMAIN photoData :
    /\ ~photoData[k].isDragging
    /\ ~isDraggingPhoto
    /\ photoData[k].dragOffset # 0
    /\ photoData[k].tree = World(500) + photoData[k].dragOffset
    /\ photoData[k].tree \notin NewTreeYs
    /\ photoData[k].pos \notin {0, photoData[k].tree}

IdleFrame ==
  /\ ~isDraggingScene /\ ~isDraggingPhoto /\ ~isHandActiveRef
  /\ \E d \in RotDeltas : SceneFrame(d)

\* C9: in an idle frame the magnitude of angularVelocity strictly decreases
\* while it is above the idle-drift speed, and from the idle-drift speed or
\* below it the velocity does not move away from the idle-drift speed.
C9_SettlesAtIdleSpeed ==
  [][IdleFrame =>
       /\ Abs(angularVelocity) > idleSpeed => Abs(angularVelocity') < Abs(angularVelocity)
       /\ Abs(angularVelocity) <= idleSpeed
            => Abs(idleSpeed - angularVelocity') <= Abs(idleSpeed - angularVelocity)]_vars

\* --------------------------------------------------------------------- C10
\* C10: while a photo is dragged, a frame leaves the rotation angle and the
\* last hand position alone and ends with angularVelocity zero, and a scene
\* pointer-down or pointer-move changes neither the angle, the velocity, the
\* scene-drag flag nor the last pointer position.
C10_PhotoDragFreezesRotation ==
  [][isDraggingPhoto =>
       /\ (\E d \in RotDeltas : SceneFrame(d))
            => /\ rotationY' = rotationY
               /\ lastHandX' = lastHandX
               /\ angularVelocity' = 0
       /\ (\E x \in ClientXs : ScenePointerDown(x) \/ ScenePointerMove(x))
            => UNCHANGED <<rotationY, angularVelocity, isDraggingScene, lastMouseX>>]_vars

\* a photo drag begun during a scene drag, with a hand moved since the last
\* frame that read it, the scene turned before, and the velocity zeroed
C10_Witness ==
  /\ isDraggingPhoto
  /\ isDraggingScene
  /\ isHandActiveRef
  /\ handXRef # lastHandX
  /\ rotationY # 0
  /\ angularVelocity = 0
  /\ lastMouseX # 0

\* --------------------------------------------------------------------- C11
\* C11: at most one camera runs; none runs while tracking is disabled or after
\* the unmount; the handle held in cameraRef is always that of a running camera,
\* and a handle newly put there was never handed out before.
C11_CameraStartStop ==
  /\ [](/\ Cardinality(camerasRunning) <= 1
        /\ (~isGestureEnabled \/ ~mounted) => camerasRunning = {}
        /\ cameraRef # NoCamera => cameraRef \in camerasRunning)
  /\ [][(cameraRef' # cameraRef /\ cameraRef' # NoCamera)
          => cameraRef' \notin 1..camerasMade]_vars

\* unmounted while the second camera, started by a re-enable, was running
C11_Witness ==
  /\ ~mounted
  /\ isGestureEnabled
  /\ camerasMade = 2
  /\ cameraRef = NoCamera
  /\ camerasRunning = {}

\* --------------------------------------------------------------------- C12
\* C12: no single step changes morph progress by the whole distance between
\* its extremes 0 and 1.
C12_NoFullJump ==
  [][Abs(progressRef' - progressRef) < PScale]_vars

\* --------------------------------------------------------------------- C13
\* C13: when onResults handles a frame without a hand, the hand-active flag is
\* false afterwards and the morph state and the published hand x are unchanged.
C13_NoHandKeepsState ==
  [][(OnResults /\ pending.hand = "absent") =>
       /\ isHandActiveRef' = FALSE
       /\ treeState' = treeState
       /\ handXRef' = handXRef]_vars

\* with the first camera still running, the flag is down again after a hand
\* right of centre had scattered the tree
C13_Witness ==
  /\ isGestureEnabled
  /\ camerasMade = 1
  /\ pending = NoResult
  /\ ~isHandActiveRef
  /\ handXRef = 60
  /\ treeState = "SCATTERED"

\* --------------------------------------------------------------------- C15
\* C15: when onResults handles a frame with a hand, the hand-active flag is
\* true afterwards and the published hand x is the wrist's x, whatever the
\* extended-finger count.
C15_HandXPublished ==
  [][(OnResults /\ pending.hand = "present") =>
       /\ isHandActiveRef' = TRUE
       /\ handXRef' = pending.wrist[1]]_vars

\* a two-finger frame was handled: the x moved left while the tree state,
\* scattered by the button, stayed
C15_Witness ==
  /\ isHandActiveRef
  /\ handXRef = 40
  /\ treeState = "SCATTERED"
  /\ camerasMade = 1
  /\ pending.hand = "present"
  /\ extendedFingers(pending) = 2

\* --------------------------------------------------------------------- C14
FieldEps == 1

\* C14: once the field's eased progress has reached 1, every particle's
\* computed position is within FieldEps of its tree position, whatever the
\* time-dependent sinusoids are.
C14_FieldAtTree ==
  ShaderProgress = PScale =>
    \A p \in Particles, sc \in Sinusoids, sb \in Sinusoids :
      \A e \in ReversedSmoothstep(Smoothstep(ShaderProgress)) :
        Abs(ParticlePosition(ShaderProgress, p, sc, sb, e) - p.tree) <= FieldEps

\* --------------------------------------------------------------------- C16
\* C16: a step that changes the list of photo sources leaves every ornament
\* whose source is still in the list exactly as it was: tree, scatter and phase
\* offset, and the animation state (mesh position, drag and hover state).
C16_OthersPreserved ==
  [][userImages' # userImages =>
       LET Kept(p) == p.url \in SeqRange(userImages')
           kept == SelectSeq(photoData, Kept)
       IN \A i \in 1..Len(kept) : photoData'[i] = kept[i]]_vars

\* --------------------------------------------------------------------- C17
\* C17: a frame that consumes gesture input (hand active, no scene drag, no
\* photo drag) adds 18 times (published hand x - lastHandX) to the velocity
\* before friction, and after every frame, consuming or not, lastHandX is the
\* hand x published at that frame, so that the next impulse measures only the
\* movement since the previous frame.
C17_ImpulseIsFrameDelta ==
  [][\A d \in RotDeltas :
       SceneFrame(d) =>
         /\ (~isDraggingPhoto /\ ~isDraggingScene /\ isHandActiveRef)
              => angularVelocity' = Friction(angularVelocity + HandImpulse(handXRef - lastHandX))
         /\ lastHandX' = handXRef]_vars

\* --------------------------------------------------------------------- C18
\* C18: while gesture tracking is disabled the hand-active flag is false, and
\* a landmark result handled while tracking is disabled (one that was in
\* flight when tracking was switched off) emits no morph state.
C18_DisabledIsSilent ==
  /\ [](~isGestureEnabled => ~isHandActiveRef)
  /\ [][(OnResults /\ ~isGestureEnabled) => treeState' = treeState]_vars

\* --------------------------------------------------------------------- C19
\* C19: pointer events on the ornaments (steps that leave the list of photo
\* sources alone) keep the photo-drag flag true exactly when some ornament is
\* dragging, and a pointer-up on an ornament that is not dragging leaves the
\* flag alone.
C19_FlagIsSomeDrag ==
  [][LET SomeDragging(pd) == \E k \in DOMAIN pd : pd[k].isDragging
     IN /\ (userImages' = userImages /\ (isDraggingPhoto <=> SomeDragging(photoData)))
             => (isDraggingPhoto' <=> SomeDragging(photoData'))
        /\ \A k \in DOMAIN photoData :
             (OrnamentPointerUp(k) /\ ~photoData[k].isDragging)
               => isDraggingPhoto' = isDraggingPhoto]_vars

\* --------------------------------------------------------------------- C20
\* C20: in a step that leaves the list of photo sources alone, an ornament's
\* tree position changes only if the step is a pointer-move on that ornament
\* and the ornament is dragging, and its scatter position does not change; in
\* a step that changes the list, every ornament that stays keeps both.
C20_TreeWrittenByDragOnly ==
  [][IF userImages' = userImages
       THEN \A k \in DOMAIN photoData :
              /\ photoData'[k].scatter = photoData[k].scatter
              /\ photoData'[k].tree # photoData[k].tree
                   => /\ photoData[k].isDragging
                      /\ \E h \in PairHits : OrnamentPointerMove(k, h)
       ELSE LET Kept(p) == p.url \in SeqRange(userImages')
                kept == SelectSeq(photoData, Kept)
            IN \A i \in 1..Len(kept) :
                 /\ photoData'[i].scatter = kept[i].scatter
                 /\ photoData'[i].tree = kept[i].tree]_vars

\* ornament 1 was dragged to a new tree position and is still dragging, while
\* ornament 2, hovered and moved by its frame, has the tree position it was
\* created with
C20_Witness ==
  /\ Len(photoData) = 2
  /\ photoData[1].isDragging /\ photoData[1].tree # World(1000)
  /\ photoData[2].hovered /\ photoData[2].pos # 0
  /\ photoData[2].tree = World(1000) /\ photoData[2].scatter = World(-3000)

====
